---- MODULE Spec2Model ----
(***************************************************************************)
(* Shopify tracking backend (src/index.js, final variant, lines 129-270):  *)
(* webhook verification, order-number normalization, fulfillment upsert    *)
(* into the Firestore collection 'orders' and the public lookup route.     *)
(*                                                                         *)
(* JavaScript strings are sequences of one-character strings; JavaScript   *)
(* values are tagged records (undefined, null, string, array).             *)
(***************************************************************************)
EXTENDS Integers, Sequences, FiniteSets, TLC

VARIABLES
    norm,     \* a run of normalizeOrderNumber on one raw string, applied twice
    orders,   \* Firestore collection 'orders': a set of documents [id, fields]
    history,  \* the 'history' subcollections: entries [doc, trackingUrl, at, source] in add order
    reqs,     \* webhook requests in arrival order, each with its handler's position
    lk,       \* the lookup request being served
    last      \* the wire form of the request whose synchronous part ran last

vars == <<norm, orders, history, reqs, lk, last>>

----------------------------------------------------------------------------
(* Bounds of the model *)

\* longest raw string normalizeOrderNumber is run on in SpecNorm
MaxLen == 4

\* number of webhook requests received in one behaviour
MaxRequests == 2

----------------------------------------------------------------------------
(* JavaScript values *)

Undefined == [t |-> "undefined"]

Null == [t |-> "null"]

Str(s) == [t |-> "string", v |-> s]

Arr(a) == [t |-> "array", v |-> a]

\* JavaScript truthiness of the values the model uses
Truthy(x) ==
    /\ x.t \notin {"undefined", "null"}
    /\ ~(x.t = "string" /\ x.v = <<>>)

\* a || b
Or(a, b) == IF Truthy(a) THEN a ELSE b

Digits == {"0", "1", "2", "3", "4", "5", "6", "7", "8", "9"}

Whitespace == {" "}

----------------------------------------------------------------------------
(* normalizeOrderNumber: raw.toString().replace(/^#?/, '').replace(/\.\d+$/, '') *)

\* .replace(/#/, ''): the regex without its ^ anchor removes the first '#' anywhere
StripFirstHashAnywhere(s) ==
    IF \E i \in 1..Len(s) : s[i] = "#"
    THEN LET i == CHOOSE j \in 1..Len(s) :
                      /\ s[j] = "#"
                      /\ \A k \in 1..(j - 1) : s[k] # "#"
         IN  SubSeq(s, 1, i - 1) \o SubSeq(s, i + 1, Len(s))
    ELSE s

\* .replace(/^#+/, ''): removes every leading '#'
RECURSIVE StripAllLeadingHashes(_)
StripAllLeadingHashes(s) ==
    IF Len(s) > 0 /\ s[1] = "#" THEN StripAllLeadingHashes(Tail(s)) ELSE s

\* .replace(/^#?/, ''): the one match is at index 0 and is '#' or empty
StripLeadingHash(s) ==
    IF Len(s) > 0 /\ s[1] = "#" THEN Tail(s) ELSE s

\* the indices at which /\.\d+$/ matches: a '.', then one or more digits up to the end
DotDigitsMatches(s) ==
    {i \in 1..Len(s) :
        /\ s[i] = "."
        /\ i < Len(s)
        /\ \A j \in (i + 1)..Len(s) : s[j] \in Digits}

\* .replace(/\.\d+$/, ''): the leftmost match is removed
StripDotDigits(s) ==
    IF DotDigitsMatches(s) = {}
    THEN s
    ELSE LET i == CHOOSE j \in DotDigitsMatches(s) :
                      \A k \in DotDigitsMatches(s) : j <= k
         IN  SubSeq(s, 1, i - 1)

normalizeOrderNumber(raw) == StripDotDigits(StripLeadingHash(raw))

----------------------------------------------------------------------------
(* Strings the pure-function specification draws from *)

Alphabet == {"#", ".", "1", "x"}

RECURSIVE StringsOfLen(_)
StringsOfLen(n) ==
    IF n = 0 THEN {<<>>}
    ELSE {Append(s, c) : s \in StringsOfLen(n - 1), c \in Alphabet}

StringsUpTo(n) == UNION {StringsOfLen(k) : k \in 0..n}

\* the labels of the specification's worked example
ExampleLabels ==
    { <<"#", "1", "0", "0", "1">>,
      <<"1", "0", "0", "1">>,
      <<"1", "0", "0", "1", ".", "1">>,
      <<"#", "1", "0", "0", "1", ".", "2">> }

NormInputs == StringsUpTo(MaxLen) \cup ExampleLabels

NormIdle == [pc |-> "idle", raw |-> <<>>, once |-> <<>>, twice |-> <<>>]

----------------------------------------------------------------------------
(* The wire: what a client can send to the webhook routes *)

\* SHOPIFY_WEBHOOK_SECRET, and a key that is not the secret
Secret == "secret"

OtherKey == "other"

\* the third argument the two routes pass to handleFulfillment
Routes == {"FULFILLMENTS_CREATE", "FULFILLMENTS_UPDATE"}

UrlA == Str(<<"a">>)

UrlB == Str(<<"b">>)

\* order labels: '#7' and '7.1' name the same order, '9' another one
Names == {Undefined, Str(<<"#", "7">>), Str(<<"7", ".", "1">>), Str(<<"9">>)}

\* tracking_urls: absent, an empty array, an array of two, a string that is no array
TrackingUrlsShapes == {Undefined, Arr(<<>>), Arr(<<UrlA, UrlB>>), UrlB}

TrackingUrlShapes == {Undefined, UrlA, UrlB}

Obj(name, urls, url) ==
    [t |-> "object", name |-> name, tracking_urls |-> urls, tracking_url |-> url]

\* the JSON documents a body can hold: a fulfillment object or the literal null
Payloads ==
    {Obj(n, us, u) : n \in Names, us \in TrackingUrlsShapes, u \in TrackingUrlShapes}
        \cup {Null}

\* text that JSON.parse rejects
Garbled == [t |-> "garbled"]

\* req.rawBody as express.raw's verify callback captured it: the text it holds and
\* `pad`, a byte of insignificant whitespace that changes the bytes and not the JSON
Buffer(pad, text) == [t |-> "buffer", pad |-> pad, text |-> text]

\* a single-byte mutation of a body
FlipByte(buf) ==
    IF buf.t = "buffer" THEN Buffer(1 - buf.pad, buf.text) ELSE buf

\* crypto.createHmac('sha256', key).update(buf).digest('base64'): an ideal keyed
\* digest, equal for equal key and bytes only
Hmac(key, buf) == Str(<<"hmac", key, buf>>)

Present == Str(<<"h">>)

CompleteObj == Obj(Str(<<"#", "7">>), Undefined, UrlA)

\* what Shopify sends: the three headers, the digest of the body under the secret
GenuineRequests ==
    {[route |-> r, hmac |-> Hmac(Secret, Buffer(0, p)), topic |-> Present,
      shop |-> Present, rawBody |-> Buffer(0, p)] :
        r \in Routes, p \in Payloads \cup {Garbled}}

\* what anybody can send: any header absent, any digest, no body, a mutated body
ArbitraryBodies ==
    {Undefined, Buffer(0, Garbled), Buffer(0, CompleteObj), Buffer(1, CompleteObj)}

HmacHeaders(body) ==
    {Undefined, Str(<<>>), Hmac(Secret, body), Hmac(OtherKey, body),
     Hmac(Secret, FlipByte(body))}

ArbitraryRequests ==
    UNION {
        {[route |-> r, hmac |-> h, topic |-> tp, shop |-> sh, rawBody |-> b] :
            r \in Routes, h \in HmacHeaders(b),
            tp \in {Undefined, Present}, sh \in {Undefined, Present}}
        : b \in ArbitraryBodies}

----------------------------------------------------------------------------
(* verifyShopifyWebhook *)

\* JSON.parse(req.rawBody.toString('utf8')): throws on text that is not JSON
JSONparse(buf) ==
    IF buf.text = Garbled
    THEN [threw |-> TRUE, value |-> Undefined]
    ELSE [threw |-> FALSE, value |-> buf.text]

\* `!hmac || !req.rawBody` alone: the topic and shop headers are not looked at
missingDigestOrBody(req) ==
    ~Truthy(req.hmac) \/ ~Truthy(req.rawBody)

\* if (!hmac || !req.rawBody || !topic || !shop)
missingRequired(req) ==
    \/ ~Truthy(req.hmac) \/ ~Truthy(req.rawBody)
    \/ ~Truthy(req.topic) \/ ~Truthy(req.shop)

\* the digest compared with the key only: any body signed with the secret passes
digestOfAnyBody(req) ==
    \A b \in {req.rawBody, FlipByte(req.rawBody)} : Hmac(Secret, b) # req.hmac

\* gen !== hmac, gen the base64 HMAC-SHA256 of req.rawBody under the secret
digestMismatch(req) == Hmac(Secret, req.rawBody) # req.hmac

\* the status the middleware sends when JSON.parse throws, were it 401 like the rest
StatusUnauthorized == 401

\* res.status(400).send('Bad Request')
StatusBadJson == 400

\* status: the response sent (0: none, the request goes on); next: next() was called;
\* hashed: the HMAC was computed; parsed: JSON.parse returned; body: req.body after it
verifyShopifyWebhook(req) ==
    IF missingRequired(req)
    THEN [status |-> 401, next |-> FALSE, hashed |-> FALSE, parsed |-> FALSE,
          body |-> Undefined]
    ELSE IF digestMismatch(req)
    THEN [status |-> 401, next |-> FALSE, hashed |-> TRUE, parsed |-> FALSE,
          body |-> Undefined]
    ELSE IF JSONparse(req.rawBody).threw
    THEN [status |-> StatusBadJson, next |-> FALSE, hashed |-> TRUE, parsed |-> FALSE,
          body |-> Undefined]
    ELSE [status |-> 0, next |-> TRUE, hashed |-> TRUE, parsed |-> TRUE,
          body |-> JSONparse(req.rawBody).value]

----------------------------------------------------------------------------
(* pickTrackingUrl and the synchronous part of handleFulfillment *)

\* f.tracking_url || (Array.isArray(f.tracking_urls) && f.tracking_urls[0]) || null:
\* the singular field tried first
pickSingularFirst(f) ==
    Or(f.tracking_url,
       Or(IF f.tracking_urls.t = "array" /\ Len(f.tracking_urls.v) > 0
          THEN f.tracking_urls.v[1] ELSE Undefined,
          Null))

\* (Array.isArray(f.tracking_urls) && f.tracking_urls[0]) || f.tracking_url || null
\* for an object f; an index past the end of an array reads undefined
pickTrackingUrl(f) ==
    Or(IF f.tracking_urls.t = "array" /\ Len(f.tracking_urls.v) > 0
       THEN f.tracking_urls.v[1] ELSE Undefined,
       Or(f.tracking_url, Null))

\* f?.name || ''
rawNameOf(f) ==
    IF f.t = "object" THEN Or(f.name, Str(<<>>)) ELSE Str(<<>>)

\* lines 203-211 with the guard `if (base)` alone: the tracking URL is not required
extractNoUrlCheck(f) ==
    IF f.t # "object"
    THEN [threw |-> TRUE, rawName |-> rawNameOf(f), base |-> <<>>,
          trackingUrl |-> Null, write |-> FALSE]
    ELSE [threw |-> FALSE, rawName |-> rawNameOf(f),
          base |-> normalizeOrderNumber(rawNameOf(f).v),
          trackingUrl |-> pickTrackingUrl(f),
          write |-> normalizeOrderNumber(rawNameOf(f).v) # <<>>]

\* lines 203-211: rawName, base and trackingUrl, and whether `base && trackingUrl`
\* holds. pickTrackingUrl(null) throws a TypeError (the default f = {} replaces
\* undefined only), which line 230 catches.
extract(f) ==
    IF f.t # "object"
    THEN [threw |-> TRUE, rawName |-> rawNameOf(f), base |-> <<>>,
          trackingUrl |-> Null, write |-> FALSE]
    ELSE [threw |-> FALSE, rawName |-> rawNameOf(f),
          base |-> normalizeOrderNumber(rawNameOf(f).v),
          trackingUrl |-> pickTrackingUrl(f),
          write |-> /\ normalizeOrderNumber(rawNameOf(f).v) # <<>>
                    /\ Truthy(pickTrackingUrl(f))]

----------------------------------------------------------------------------
(* Firestore *)

Date(n) == [t |-> "date", v |-> n]

NoFields == [k \in {} |-> Null]

Doc(id, fields) == [id |-> id, fields |-> fields]

\* the fields of the document with this id; no fields when there is none
FieldsOf(coll, id) ==
    IF \E d \in coll : d.id = id
    THEN (CHOOSE d \in coll : d.id = id).fields
    ELSE NoFields

\* collection.add(data): a new document under an id of the store's choosing
AddUnderNewId(coll, id, data) ==
    coll \cup {Doc(<<"auto">> \o [i \in 1..Cardinality(coll) |-> "+"], data)}

\* doc(id).set(data): without merge the document is replaced whole
SetReplace(coll, id, data) ==
    {d \in coll : d.id # id} \cup {Doc(id, data)}

\* doc(id).set(data, { merge: true }): the fields of data are written, every other
\* field of an existing document is kept, a missing document is created
SetMerge(coll, id, data) ==
    {d \in coll : d.id # id} \cup
        {Doc(id, [k \in DOMAIN FieldsOf(coll, id) \cup DOMAIN data |->
                    IF k \in DOMAIN data THEN data[k] ELSE FieldsOf(coll, id)[k]])}

\* doc(id).get(): the snapshot
Get(coll, id) ==
    [exists |-> \E d \in coll : d.id = id, data |-> FieldsOf(coll, id)]

\* the document another client of the store wrote before the server started: no
\* tracking URL yet
SeedId == <<"9">>

SeedOrders == {Doc(SeedId, [trackingUrl |-> Null, note |-> Str(<<"n">>)])}

----------------------------------------------------------------------------
(* The webhook routes: verifyShopifyWebhook, then handleFulfillment *)

\* new Date(): the clock ticks with every webhook request received
Now == Len(reqs)

NoLast == [kind |-> "none"]

\* The closure of a handler that is over is garbage: `source` and `updatedAt` are
\* kept while the handler waits, the label and the URL while something of them is
\* in the store.
NoClosure ==
    [source |-> "", rawName |-> Str(<<>>), base |-> <<>>, trackingUrl |-> Null,
     updatedAt |-> Date(0), at |-> Date(0)]

\* a request that was answered in the synchronous part of its handling; `alone`
\* tells whether every earlier request had been answered when this one arrived
Answered(status, verdict, e) ==
    [pc |-> "done", status |-> status, responses |-> 1, verified |-> verdict.next,
     threw |-> e.threw, set |-> "none", add |-> "none", alone |-> TRUE,
     c |-> NoClosure]

\* all requests received so far have been answered
AllAnswered == \A i \in 1..Len(reqs) : reqs[i].pc = "done"

NoExtract ==
    [threw |-> FALSE, rawName |-> Str(<<>>), base |-> <<>>, trackingUrl |-> Null,
     write |-> FALSE]

\* the request as it stands when the handler reaches its first await, or its answer
handle(req, now) ==
    LET v == verifyShopifyWebhook(req)
        e == IF v.next THEN extract(v.body) ELSE NoExtract
    IN  IF ~v.next THEN Answered(v.status, v, e)
        ELSE IF e.threw \/ ~e.write THEN Answered(200, v, e)
        ELSE [pc |-> "awaitSet", status |-> 0, responses |-> 0, verified |-> TRUE,
              threw |-> FALSE, set |-> "pending", add |-> "none", alone |-> TRUE,
              c |-> [source |-> req.route, rawName |-> e.rawName, base |-> e.base,
                     trackingUrl |-> e.trackingUrl, updatedAt |-> Date(now),
                     at |-> Date(0)]]

\* the argument of docRef.set with the display number made of the raw label:
\* `#${rawName}`
orderFieldsRawDisplay(c) ==
    [orderNumberBase |-> Str(c.base), orderNumber |-> Str(<<"#">> \o c.rawName.v),
     trackingUrl |-> c.trackingUrl, updatedAt |-> c.updatedAt]

\* the argument of docRef.set
orderFields(c) ==
    [orderNumberBase |-> Str(c.base), orderNumber |-> Str(<<"#">> \o c.base),
     trackingUrl |-> c.trackingUrl, updatedAt |-> c.updatedAt]

\* db.collection('orders').add(...), as the earlier variants of the route wrote
upsertByAdd(coll, c) == AddUnderNewId(coll, c.base, orderFields(c))

\* docRef.create(...) in place of set: an existing document is left as it is
upsertIfAbsent(coll, c) ==
    IF \E d \in coll : d.id = c.base THEN coll ELSE SetMerge(coll, c.base, orderFields(c))

\* the update route written with docRef.update(...): it changes an existing document
\* and creates none
upsertOnCreateOnly(coll, c) ==
    IF c.source = "FULFILLMENTS_UPDATE" /\ ~(\E d \in coll : d.id = c.base)
    THEN coll
    ELSE SetMerge(coll, c.base, orderFields(c))

\* the upsert of line 214
upsert(coll, c) == SetMerge(coll, c.base, orderFields(c))

\* the argument of history.add, under the document of the display number:
\* db.collection('orders').doc(display).collection('history')
historyEntryUnderDisplay(c) ==
    [doc |-> <<"#">> \o c.base, trackingUrl |-> c.trackingUrl, at |-> c.at,
     source |-> c.source]

\* the argument of history.add, under the document it is added to; `at` is the
\* new Date() taken when add was called
historyEntry(c) ==
    [doc |-> c.base, trackingUrl |-> c.trackingUrl, at |-> c.at, source |-> c.source]

\* A webhook request is received and handled up to its first await. Requests are
\* served one after another: the one before has been answered and forgotten.
Receive(req) ==
    /\ Len(reqs) < MaxRequests
    /\ AllAnswered
    /\ lk.pc = "idle"
    /\ last = NoLast
    /\ reqs' = Append(reqs, handle(req, Len(reqs) + 1))
    /\ last' = [kind |-> "webhook", id |-> Len(reqs) + 1, req |-> req,
                verdict |-> verifyShopifyWebhook(req)]
    /\ UNCHANGED <<norm, orders, history, lk>>

\* a delivery by Shopify
Deliver == \E req \in GenuineRequests : Receive(req)

\* a POST by anybody else
Post == \E req \in ArbitraryRequests : Receive(req)

\* `last` after a step of request i: the wire form of request i stays, the answer of
\* a lookup that read the store before the step does not
lastAfter(i) ==
    IF last.kind = "webhook" /\ last.id = i THEN last ELSE NoLast

\* docRef.set resolves: the write is applied, then history.add is called with
\* { trackingUrl, at: new Date(), source }
SetResolves(i) ==
    /\ reqs[i].pc = "awaitSet"
    /\ orders' = upsert(orders, reqs[i].c)
    /\ reqs' = [reqs EXCEPT ![i].pc = "awaitAdd", ![i].set = "applied",
                            ![i].add = "pending", ![i].c.at = Date(Now)]
    /\ last' = lastAfter(i)
    /\ UNCHANGED <<norm, history, lk>>

\* docRef.set rejects in a handler without the try/catch: the rejection is unhandled
\* and no response is sent
SetRejectsUnanswered(i) ==
    /\ reqs[i].pc = "awaitSet"
    /\ reqs' = [reqs EXCEPT ![i].pc = "hung", ![i].set = "failed", ![i].c = NoClosure]
    /\ last' = lastAfter(i)
    /\ UNCHANGED <<norm, orders, history, lk>>

\* docRef.set rejects and the catch removes the document (docRef.delete()) before
\* answering
SetRejectsDeletes(i) ==
    /\ reqs[i].pc = "awaitSet"
    /\ orders' = {d \in orders : d.id # reqs[i].c.base}
    /\ reqs' = [reqs EXCEPT ![i].pc = "done", ![i].set = "failed",
                            ![i].status = 200, ![i].responses = @ + 1,
                            ![i].c = NoClosure]
    /\ last' = lastAfter(i)
    /\ UNCHANGED <<norm, history, lk>>

\* docRef.set rejects: the catch of line 230 answers 200
SetRejects(i) ==
    /\ reqs[i].pc = "awaitSet"
    /\ reqs' = [reqs EXCEPT ![i].pc = "done", ![i].set = "failed",
                            ![i].status = 200, ![i].responses = @ + 1,
                            ![i].c = NoClosure]
    /\ last' = lastAfter(i)
    /\ UNCHANGED <<norm, orders, history, lk>>

\* history.add resolves: line 229 answers 200
AddResolves(i) ==
    /\ reqs[i].pc = "awaitAdd"
    /\ history' = Append(history, historyEntry(reqs[i].c))
    /\ reqs' = [reqs EXCEPT ![i].pc = "done", ![i].add = "applied",
                            ![i].status = 200, ![i].responses = @ + 1,
                            ![i].c.source = "", ![i].c.updatedAt = Date(0),
                            ![i].c.at = Date(0)]
    /\ last' = lastAfter(i)
    /\ UNCHANGED <<norm, orders, lk>>

\* history.add rejects and the handler undoes its primary write before answering
AddRejectsRollsBack(i) ==
    /\ reqs[i].pc = "awaitAdd"
    /\ orders' = {d \in orders : d.id # reqs[i].c.base}
    /\ reqs' = [reqs EXCEPT ![i].pc = "done", ![i].add = "failed",
                            ![i].status = 200, ![i].responses = @ + 1,
                            ![i].c.source = "", ![i].c.updatedAt = Date(0),
                            ![i].c.at = Date(0)]
    /\ last' = lastAfter(i)
    /\ UNCHANGED <<norm, history, lk>>

\* history.add rejects: the catch of line 230 answers 200
AddRejects(i) ==
    /\ reqs[i].pc = "awaitAdd"
    /\ reqs' = [reqs EXCEPT ![i].pc = "done", ![i].add = "failed",
                            ![i].status = 200, ![i].responses = @ + 1,
                            ![i].c.source = "", ![i].c.updatedAt = Date(0),
                            ![i].c.at = Date(0)]
    /\ last' = lastAfter(i)
    /\ UNCHANGED <<norm, orders, history, lk>>

----------------------------------------------------------------------------
(* GET /get-tracking-url *)

\* String.prototype.trim
RECURSIVE trim(_)
trim(s) ==
    IF Len(s) > 0 /\ s[1] \in Whitespace THEN trim(Tail(s))
    ELSE IF Len(s) > 0 /\ s[Len(s)] \in Whitespace THEN trim(SubSeq(s, 1, Len(s) - 1))
    ELSE s

\* the orderNumber query parameter: absent, blank, or a label as a customer types it
Queries ==
    {Undefined, Str(<<" ">>), Str(<<"#", "7">>), Str(<<"7", ".", "1", ".", "2">>),
     Str(<<" ", "9">>)}

LkIdle == [pc |-> "idle", query |-> Undefined, q |-> <<>>, base |-> <<>>]

\* a lookup and its response: reads counts the store reads made for it
LookupAnswer(query, q, base, status, reads, found, url) ==
    [kind |-> "lookup", query |-> query, q |-> q, base |-> base, status |-> status,
     reads |-> reads, readFailed |-> FALSE, found |-> found, trackingUrl |-> url]

\* data.trackingUrl of a snapshot
trackingUrlOf(snap) ==
    IF "trackingUrl" \in DOMAIN snap.data THEN snap.data["trackingUrl"] ELSE Undefined

\* (req.query.orderNumber || '').toString() without the .trim()
queryTextUntrimmed(query) == Or(query, Str(<<>>)).v

\* (req.query.orderNumber || '').toString().trim()
queryText(query) == trim(Or(query, Str(<<>>)).v)

\* the document id looked up, were the query used as typed
lookupKeyAsTyped(q) == q

\* const base = normalizeOrderNumber(q)
lookupKey(q) == normalizeOrderNumber(q)

\* lines 248-253: up to the await of the store read, or the 400
LookupStart(query) ==
    /\ lk.pc = "idle"
    /\ last = NoLast
    /\ IF queryText(query) = <<>>
       THEN /\ last' = LookupAnswer(query, <<>>, <<>>, 400, 0, FALSE, Undefined)
            /\ lk' = lk
       ELSE /\ lk' = [pc |-> "awaitGet", query |-> query, q |-> queryText(query),
                      base |-> lookupKey(queryText(query))]
            /\ last' = NoLast
    /\ UNCHANGED <<norm, orders, history, reqs>>

\* the answer to a snapshot, were a record without a tracking URL reported missing
answerMissingWhenNoUrl(l, snap) ==
    IF ~snap.exists \/ ~Truthy(trackingUrlOf(snap))
    THEN LookupAnswer(l.query, l.q, l.base, 404, 1, FALSE, Undefined)
    ELSE LookupAnswer(l.query, l.q, l.base, 200, 1, TRUE, trackingUrlOf(snap))

\* the answer to a snapshot: 404 when it does not exist, else 200 with the field
answerSnapshot(l, snap) ==
    IF ~snap.exists
    THEN LookupAnswer(l.query, l.q, l.base, 404, 1, FALSE, Undefined)
    ELSE LookupAnswer(l.query, l.q, l.base, 200, 1, TRUE, trackingUrlOf(snap))

\* the read resolves
LookupResolves ==
    /\ lk.pc = "awaitGet"
    /\ last' = answerSnapshot(lk, Get(orders, lk.base))
    /\ lk' = LkIdle
    /\ UNCHANGED <<norm, orders, history, reqs>>

\* the read rejects: the catch of line 262 answers 500
LookupRejects ==
    /\ lk.pc = "awaitGet"
    /\ last' = [LookupAnswer(lk.query, lk.q, lk.base, 500, 1, FALSE, Undefined)
                    EXCEPT !.readFailed = TRUE]
    /\ lk' = LkIdle
    /\ UNCHANGED <<norm, orders, history, reqs>>

\* the exchange that was answered last is over: its wire form is forgotten
Forget ==
    /\ last # NoLast
    /\ last' = NoLast
    /\ UNCHANGED <<norm, orders, history, reqs, lk>>

----------------------------------------------------------------------------
(* The server *)

Init ==
    /\ norm = NormIdle
    /\ orders = SeedOrders
    /\ history = <<>>
    /\ reqs = <<>>
    /\ lk = LkIdle
    /\ last = NoLast

Next ==
    \/ Deliver
    \/ Post
    \/ \E i \in 1..Len(reqs) : SetResolves(i)
    \/ \E i \in 1..Len(reqs) : SetRejects(i)
    \/ \E i \in 1..Len(reqs) : AddResolves(i)
    \/ \E i \in 1..Len(reqs) : AddRejects(i)
    \/ \E query \in Queries : LookupStart(query)
    \/ LookupResolves
    \/ LookupRejects
    \/ Forget

Spec == Init /\ [][Next]_vars

----------------------------------------------------------------------------
(* The webhook routes under near-simultaneous deliveries: a handler runs up to  *)
(* its next await, and the handlers of other requests run in between.          *)

\* verified, complete deliveries for one order under its two labels
ConcurrentDeliveries ==
    {[route |-> r, hmac |-> Hmac(Secret, Buffer(0, Obj(n, Undefined, u))),
      topic |-> Present, shop |-> Present, rawBody |-> Buffer(0, Obj(n, Undefined, u))] :
        r \in Routes, n \in {Str(<<"#", "7">>), Str(<<"7", ".", "1">>)},
        u \in {UrlA, UrlB}}

\* a delivery arrives while earlier ones may still await the store
DeliverMeanwhile ==
    \E req \in ConcurrentDeliveries :
        /\ Len(reqs) < MaxRequests
        /\ reqs' = Append(reqs, [handle(req, Len(reqs) + 1) EXCEPT !.alone = AllAnswered])
        /\ UNCHANGED <<norm, orders, history, lk, last>>

NextConc ==
    \/ DeliverMeanwhile
    \/ \E i \in 1..Len(reqs) : SetResolves(i)
    \/ \E i \in 1..Len(reqs) : SetRejects(i)
    \/ \E i \in 1..Len(reqs) : AddResolves(i)
    \/ \E i \in 1..Len(reqs) : AddRejects(i)

SpecConc == Init /\ [][NextConc]_vars

----------------------------------------------------------------------------
(* The server when every awaited store operation completes or fails *)

\* one request of each kind the webhook routes tell apart: a complete delivery, an
\* incomplete one, the literal null, a body that is no JSON, a missing topic header
RequestKinds ==
    {[route |-> "FULFILLMENTS_CREATE", hmac |-> Hmac(Secret, Buffer(0, p)),
      topic |-> Present, shop |-> Present, rawBody |-> Buffer(0, p)] :
        p \in {CompleteObj, Obj(Str(<<"#", "7">>), Undefined, Undefined), Null, Garbled}}
    \cup
    {[route |-> "FULFILLMENTS_UPDATE", hmac |-> Hmac(Secret, Buffer(0, CompleteObj)),
      topic |-> Undefined, shop |-> Present, rawBody |-> Buffer(0, CompleteObj)]}

\* a request arrives, whatever else is in flight
Arrive ==
    \E req \in RequestKinds :
        /\ Len(reqs) < MaxRequests
        /\ reqs' = Append(reqs, [handle(req, Len(reqs) + 1) EXCEPT !.alone = AllAnswered])
        /\ UNCHANGED <<norm, orders, history, lk, last>>

NextLive ==
    \/ Arrive
    \/ \E i \in 1..Len(reqs) : SetResolves(i)
    \/ \E i \in 1..Len(reqs) : SetRejects(i)
    \/ \E i \in 1..Len(reqs) : AddResolves(i)
    \/ \E i \in 1..Len(reqs) : AddRejects(i)
    \/ \E query \in Queries : LookupStart(query)
    \/ LookupResolves
    \/ LookupRejects
    \/ Forget

\* the promise of each awaited store call settles: docRef.set, history.add, get
StoreSettles ==
    /\ \A i \in 1..MaxRequests : WF_vars(i <= Len(reqs) /\ (SetResolves(i) \/ SetRejects(i)))
    /\ \A i \in 1..MaxRequests : WF_vars(i <= Len(reqs) /\ (AddResolves(i) \/ AddRejects(i)))
    /\ WF_vars(LookupResolves \/ LookupRejects)

SpecLive == Init /\ [][NextLive]_vars /\ StoreSettles

----------------------------------------------------------------------------
(* normalizeOrderNumber on its own *)

InitNorm ==
    /\ norm \in {[NormIdle EXCEPT !.raw = s] : s \in NormInputs}
    /\ orders = SeedOrders
    /\ history = <<>>
    /\ reqs = <<>>
    /\ lk = LkIdle
    /\ last = NoLast

NormOnce ==
    /\ norm.pc = "idle"
    /\ norm' = [norm EXCEPT !.pc = "once", !.once = normalizeOrderNumber(norm.raw)]
    /\ UNCHANGED <<orders, history, reqs, lk, last>>

NormTwice ==
    /\ norm.pc = "once"
    /\ norm' = [norm EXCEPT !.pc = "twice", !.twice = normalizeOrderNumber(norm.once)]
    /\ UNCHANGED <<orders, history, reqs, lk, last>>

NextNorm == NormOnce \/ NormTwice

SpecNorm == InitNorm /\ [][NextNorm]_vars

----------------------------------------------------------------------------
(* Claims about normalizeOrderNumber, under SpecNorm *)

\* the number of '#' a string starts with
RECURSIVE LeadingHashes(_)
LeadingHashes(s) ==
    IF Len(s) > 0 /\ s[1] = "#" THEN 1 + LeadingHashes(Tail(s)) ELSE 0

\* s is '.' followed by one or more digits
IsDotDigits(s) ==
    /\ Len(s) >= 2
    /\ s[1] = "."
    /\ \A j \in 2..Len(s) : s[j] \in Digits

\* the number of '.<digits>' groups a string ends with
RECURSIVE TrailingGroups(_)
TrailingGroups(s) ==
    IF \E i \in 1..Len(s) : IsDotDigits(SubSeq(s, i, Len(s)))
    THEN LET i == CHOOSE j \in 1..Len(s) : IsDotDigits(SubSeq(s, j, Len(s)))
         IN  1 + TrailingGroups(SubSeq(s, 1, i - 1))
    ELSE 0

\* C1 as stated: normalizing a second time changes nothing, for every string.
C1_IdempotentOnEveryString ==
    norm.pc = "twice" => norm.twice = norm.once

\* C1 amended: normalizeOrderNumber(normalizeOrderNumber(s)) = normalizeOrderNumber(s)
\* exactly for the strings s with at most one leading '#' and at most one trailing
\* '.<digits>' group; with more of either the second pass removes one more.
C1_IdempotentOnSingleMarks ==
    norm.pc = "twice" =>
        ((norm.twice = norm.once) <=>
            (LeadingHashes(norm.raw) <= 1 /\ TrailingGroups(norm.raw) <= 1))

C1_Witness ==
    /\ norm.pc = "twice"
    /\ LeadingHashes(norm.raw) = 1
    /\ TrailingGroups(norm.raw) = 1
    /\ norm.once # norm.raw
    /\ norm.twice = norm.once

\* C10: the result is the raw string without one leading '#', if it has one, and
\* without one trailing '.<digits>' group, if what is left ends with one; nothing
\* else is removed, and the four labels of the example all give '1001'.
C10_StripsOneHashAndOneSuffix ==
    norm.pc \in {"once", "twice"} =>
        LET h    == IF Len(norm.raw) > 0 /\ norm.raw[1] = "#" THEN 1 ELSE 0
            rest == SubSeq(norm.raw, h + 1, Len(norm.raw))
            out  == norm.once
            cut  == SubSeq(rest, Len(out) + 1, Len(rest))
        IN  /\ Len(out) <= Len(rest)
            /\ out = SubSeq(rest, 1, Len(out))
            /\ cut = <<>> \/ IsDotDigits(cut)
            /\ cut = <<>> => TrailingGroups(rest) = 0
            /\ norm.raw \in ExampleLabels => out = <<"1", "0", "0", "1">>

C10_Witness ==
    /\ norm.pc = "once"
    /\ norm.raw = <<"#", "1", "0", "0", "1", ".", "2">>
    /\ norm.once = <<"1", "0", "0", "1">>

----------------------------------------------------------------------------
(* Claims about the webhook routes, under Spec *)

\* a header or body that is not there (an empty header is no header)
Absent(x) == x = Undefined \/ x = Str(<<>>)

SomethingMissing(req) ==
    Absent(req.hmac) \/ Absent(req.topic) \/ Absent(req.shop) \/ Absent(req.rawBody)

DigestMatches(req) == req.hmac = Hmac(Secret, req.rawBody)

\* nothing of the request reached handleFulfillment or the store
NeverHandled(r) ==
    r.pc = "done" /\ ~r.verified /\ r.set = "none" /\ r.add = "none"

\* C2: a request whose digest header is not base64(HMAC-SHA256(secret, rawBody)) is
\* not parsed, not passed on to handleFulfillment and writes nothing; with the three
\* headers and a body present the digest check passes exactly when the header is
\* that digest.
C2_MismatchNeverTrusted ==
    last.kind = "webhook" =>
        LET req == last.req
            r   == reqs[last.id]
        IN  /\ ~DigestMatches(req) =>
                /\ ~last.verdict.parsed
                /\ ~last.verdict.next
                /\ NeverHandled(r)
                /\ r.status = 401
            /\ ~SomethingMissing(req) =>
                ((last.verdict.hashed /\ last.verdict.status # 401)
                    <=> DigestMatches(req))

\* the digest of the body before one of its bytes changed is refused
C2_Witness ==
    /\ last.kind = "webhook"
    /\ ~SomethingMissing(last.req)
    /\ last.req.hmac = Hmac(Secret, FlipByte(last.req.rawBody))
    /\ last.req.rawBody.text = CompleteObj
    /\ reqs[last.id].status = 401
    /\ NeverHandled(reqs[last.id])

ResponseClass(req) ==
    IF SomethingMissing(req) \/ ~DigestMatches(req) THEN 401
    ELSE IF req.rawBody.text = Garbled THEN 400
    ELSE 200

\* C4: every request gets one response: 401 when something is missing or the digest
\* differs, 400 when the digest matches and the body is no JSON, 200 once it passed
\* verification, whatever happens in handleFulfillment; a request that passed
\* verification is answered 200 and nothing else.
C4_OneResponsePerClass ==
    /\ \A i \in 1..Len(reqs) :
        IF reqs[i].pc = "done"
        THEN /\ reqs[i].responses = 1
             /\ reqs[i].status \in {200, 400, 401}
             /\ reqs[i].verified <=> reqs[i].status = 200
        ELSE /\ reqs[i].responses = 0
             /\ reqs[i].status = 0
             /\ reqs[i].verified
    /\ last.kind = "webhook" =>
        /\ reqs[last.id].verified <=> ResponseClass(last.req) = 200
        /\ reqs[last.id].pc = "done" => reqs[last.id].status = ResponseClass(last.req)

\* 200 after pickTrackingUrl threw on a null body and after a rejected store write
C4_Witness ==
    /\ \E i \in 1..Len(reqs) : reqs[i].threw /\ reqs[i].status = 200
    /\ \E i \in 1..Len(reqs) : reqs[i].set = "failed" /\ reqs[i].status = 200

----------------------------------------------------------------------------
(* Claims about the store, under Spec *)

\* the records of order key k: the document of that id and any tagged with that base
RecordsOf(k) ==
    {d \in orders :
        \/ d.id = k
        \/ /\ "orderNumberBase" \in DOMAIN d.fields
           /\ d.fields["orderNumberBase"] = Str(k)}

\* the events whose merge write was applied and whose label normalizes to k
ProcessedFor(k) ==
    {i \in 1..Len(reqs) :
        /\ reqs[i].set = "applied"
        /\ normalizeOrderNumber(reqs[i].c.rawName.v) = k}

\* the last of them
LastProcessedFor(k) ==
    CHOOSE i \in ProcessedFor(k) : \A j \in ProcessedFor(k) : j <= i

OrderKeys ==
    {d.id : d \in orders}
        \cup {normalizeOrderNumber(reqs[i].c.rawName.v) :
                i \in {j \in 1..Len(reqs) : reqs[j].set = "applied"}}

\* C5: with the events served one after another (Spec serves them so), every order
\* key has at most one record, and the record of a key holds the tracking URL of the
\* event processed last for that key. An event is processed when its merge write
\* was applied; one whose write the store rejected changes nothing (C4, C13).
C5_OneRecordLastUrlWins ==
    \A k \in OrderKeys :
        /\ Cardinality(RecordsOf(k)) <= 1
        /\ ProcessedFor(k) # {} =>
            \E d \in orders :
                /\ d.id = k
                /\ d.fields["trackingUrl"] = reqs[LastProcessedFor(k)].c.trackingUrl

\* two events for one order with different URLs: one record, the second URL
C5_Witness ==
    /\ Len(reqs) = 2
    /\ reqs[1].set = "applied"
    /\ reqs[2].set = "applied"
    /\ reqs[1].c.base = reqs[2].c.base
    /\ reqs[1].c.trackingUrl # reqs[2].c.trackingUrl
    /\ Cardinality(RecordsOf(reqs[2].c.base)) = 1
    /\ \E d \in orders :
        d.id = reqs[2].c.base /\ d.fields["trackingUrl"] = reqs[2].c.trackingUrl

\* the event has no order label, or no tracking URL in the array nor in the
\* singular field (the literal null has neither)
LacksLabelOrUrl(f) ==
    \/ f.t # "object"
    \/ ~Truthy(f.name)
    \/ /\ ~(f.tracking_urls.t = "array" /\ Len(f.tracking_urls.v) > 0
                /\ Truthy(f.tracking_urls.v[1]))
       /\ ~Truthy(f.tracking_url)

\* C7: the step that receives a verified, parsed event without a label or without a
\* tracking URL answers it 200, calls no store write and leaves the records and
\* the history as they were.
C7_IncompleteEventWritesNothing ==
    [][ (/\ last'.kind = "webhook"
         /\ last'.verdict.parsed
         /\ LacksLabelOrUrl(last'.verdict.body))
        => (/\ orders' = orders
            /\ history' = history
            /\ reqs'[last'.id].pc = "done"
            /\ reqs'[last'.id].status = 200
            /\ reqs'[last'.id].set = "none"
            /\ reqs'[last'.id].add = "none") ]_vars

\* the body {"name": "#7"} with the right digest
C7_Witness ==
    /\ last.kind = "webhook"
    /\ last.verdict.parsed
    /\ last.verdict.body = Obj(Str(<<"#", "7">>), Undefined, Undefined)
    /\ reqs[last.id].status = 200
    /\ reqs[last.id].set = "none"

\* the URL the claim names for a payload
ArrayFirstElseSingular(f) ==
    IF f.tracking_urls.t = "array" /\ Len(f.tracking_urls.v) > 0
        /\ Truthy(f.tracking_urls.v[1])
    THEN f.tracking_urls.v[1]
    ELSE IF Truthy(f.tracking_url) THEN f.tracking_url
    ELSE Null

\* C9: for a parsed fulfillment object pickTrackingUrl gives the first element of
\* tracking_urls when it is an array with a usable first element, else the singular
\* tracking_url, else null; that URL is the one written and stored.
C9_ArrayFormFirst ==
    (last.kind = "webhook" /\ last.verdict.parsed /\ last.verdict.body.t = "object") =>
        LET f == last.verdict.body
            r == reqs[last.id]
        IN  /\ pickTrackingUrl(f) = ArrayFirstElseSingular(f)
            /\ r.set \in {"pending", "applied"} =>
                r.c.trackingUrl = ArrayFirstElseSingular(f)
            /\ r.set = "applied" =>
                \E d \in orders :
                    /\ d.id = r.c.base
                    /\ d.fields["trackingUrl"] = ArrayFirstElseSingular(f)

\* both shapes present with different URLs: the array's first element is stored
C9_Witness ==
    /\ last.kind = "webhook"
    /\ last.verdict.parsed
    /\ last.verdict.body.t = "object"
    /\ last.verdict.body.tracking_urls = Arr(<<UrlA, UrlB>>)
    /\ last.verdict.body.tracking_url = UrlB
    /\ reqs[last.id].set = "applied"
    /\ \E d \in orders : d.id = reqs[last.id].c.base /\ d.fields["trackingUrl"] = UrlA

----------------------------------------------------------------------------
(* Claims about the lookup route, under Spec *)

\* what is left of s without a leading '#', a trailing '.<digits>' group, both or
\* neither
CoresOf(s) ==
    {SubSeq(s, 1 + h, Len(s) - n) :
        h \in {0} \cup (IF Len(s) > 0 /\ s[1] = "#" THEN {1} ELSE {}),
        n \in {0} \cup {Len(s) - i + 1 : i \in {j \in 1..Len(s) :
                                                  IsDotDigits(SubSeq(s, j, Len(s)))}}}

\* the two strings differ only by a leading '#' and/or a trailing '.<digits>' suffix
DiffersOnlyByMarks(a, b) == CoresOf(a) \cap CoresOf(b) # {}

\* they do so around a common part that has no leading '#' and no trailing
\* '.<digits>' group of its own
DiffersOnlyByMarksOfCleanCore(a, b) ==
    \E c \in CoresOf(a) \cap CoresOf(b) :
        LeadingHashes(c) = 0 /\ TrailingGroups(c) = 0

\* the URL stored last under the order of label L
LastStoredFor(L) ==
    reqs[LastProcessedFor(normalizeOrderNumber(L))].c.trackingUrl

Reconciled == {i \in 1..Len(reqs) : reqs[i].set = "applied"}

\* C6 as stated, for the lookups whose store read did not fail: a query that differs
\* from the label of a reconciled event only by a leading '#' and/or a trailing
\* '.<digits>' suffix is answered 200 with the URL last stored for that label.
C6_AnyMarkedQueryFinds ==
    (last.kind = "lookup" /\ last.query.t = "string" /\ ~last.readFailed) =>
        \A i \in Reconciled :
            DiffersOnlyByMarks(reqs[i].c.rawName.v, last.query.v) =>
                /\ last.status = 200
                /\ last.trackingUrl = LastStoredFor(reqs[i].c.rawName.v)

\* C6 amended: when the label and the query differ only by a leading '#' and/or a
\* trailing '.<digits>' suffix around a common part that itself has neither, the
\* query has no surrounding whitespace and the store read does not fail, the
\* lookup is answered 200 with the URL last stored for the label.
C6_CleanMarkedQueryFinds ==
    (last.kind = "lookup" /\ last.query.t = "string" /\ ~last.readFailed) =>
        \A i \in Reconciled :
            (/\ DiffersOnlyByMarksOfCleanCore(reqs[i].c.rawName.v, last.query.v)
             /\ trim(last.query.v) = last.query.v) =>
                /\ last.status = 200
                /\ last.trackingUrl = LastStoredFor(reqs[i].c.rawName.v)

\* lookup('#7') after an event labelled '7.1'
C6_Witness ==
    /\ last.kind = "lookup"
    /\ last.query = Str(<<"#", "7">>)
    /\ last.status = 200
    /\ \E i \in Reconciled :
        /\ reqs[i].c.rawName = Str(<<"7", ".", "1">>)
        /\ \A j \in Reconciled : j <= i
        /\ last.trackingUrl = reqs[i].c.trackingUrl

\* C8: a lookup with a non-blank query whose store read does not fail is answered
\* 404 exactly when no record exists under the normalized key, and never 400 or
\* 500; an existing record is answered 200 with the trackingUrl it stores, be it
\* null.
C8_NotFoundIffNoRecord ==
    (last.kind = "lookup" /\ queryText(last.query) # <<>> /\ ~last.readFailed) =>
        LET k == normalizeOrderNumber(queryText(last.query))
        IN  /\ last.reads = 1
            /\ last.status \in {200, 404}
            /\ last.status = 404 <=> ~(\E d \in orders : d.id = k)
            /\ \A d \in orders :
                d.id = k =>
                    /\ last.status = 200
                    /\ last.trackingUrl = d.fields["trackingUrl"]

\* the record another client wrote, found with its null tracking URL
C8_Witness ==
    /\ last.kind = "lookup"
    /\ last.query = Str(<<" ", "9">>)
    /\ ~last.readFailed
    /\ \E d \in orders : d.id = <<"9">> /\ d.fields["trackingUrl"] = Null
    /\ last.status = 200
    /\ last.trackingUrl = Null

\* the orderNumber parameter is missing, empty or whitespace only
BlankQuery(query) ==
    \/ query = Undefined
    \/ query.t = "string" /\ \A i \in 1..Len(query.v) : query.v[i] \in Whitespace

\* C11: a lookup whose orderNumber is missing, empty or whitespace only is answered
\* 400 without a store read: none was made for it and none is pending.
C11_BlankQueryNoRead ==
    /\ (last.kind = "lookup" /\ BlankQuery(last.query)) =>
        /\ last.status = 400
        /\ last.reads = 0
        /\ lk.pc = "idle"
    /\ lk.pc = "awaitGet" => ~BlankQuery(lk.query)

\* the whitespace-only query, answered 400
C11_Witness ==
    /\ last.kind = "lookup"
    /\ last.query = Str(<<" ">>)
    /\ last.status = 400
    /\ last.reads = 0

----------------------------------------------------------------------------
(* Claims about near-simultaneous deliveries, under SpecConc *)

\* the merge write of request i is applied in this step
MergeApplied(i) == reqs[i].set = "pending" /\ reqs'[i].set = "applied"

\* the URLs of the merge writes applied so far for key k
AppliedUrls(k) == {reqs[i].c.trackingUrl : i \in ProcessedFor(k)}

\* C12: deliveries for one order key handled at the same time may have their merge
\* writes applied in either order; whenever one is applied the key has exactly one
\* record and it holds that write's URL, no other step changes the records, and so
\* the record always holds the URL of the merge applied last, which is the URL of
\* one of the events.
C12_LastAppliedMergeWins ==
    /\ [](\A k \in OrderKeys :
            ProcessedFor(k) # {} =>
                /\ Cardinality(RecordsOf(k)) = 1
                /\ \E d \in orders : d.id = k /\ d.fields["trackingUrl"] \in AppliedUrls(k))
    /\ [][ /\ \A i \in 1..Len(reqs) :
                MergeApplied(i) =>
                    /\ Cardinality(RecordsOf(reqs[i].c.base)') = 1
                    /\ \E d \in orders' :
                        /\ d.id = reqs[i].c.base
                        /\ d.fields["trackingUrl"] = reqs[i].c.trackingUrl
           /\ (\A i \in 1..Len(reqs) : ~MergeApplied(i)) => orders' = orders ]_vars

\* two deliveries in flight together, the second one's merge applied first: the
\* record holds the first one's URL
C12_Witness ==
    /\ Len(reqs) = 2
    /\ reqs[1].pc = "awaitAdd"
    /\ reqs[2].pc = "awaitAdd"
    /\ reqs[1].c.base = reqs[2].c.base
    /\ reqs[1].c.trackingUrl = UrlA
    /\ reqs[2].c.trackingUrl = UrlB
    /\ history = <<>>
    /\ Cardinality(RecordsOf(reqs[1].c.base)) = 1
    /\ \E d \in orders :
        /\ d.id = reqs[1].c.base
        /\ d.fields["trackingUrl"] = UrlA
        /\ d.fields["updatedAt"] = Date(1)

----------------------------------------------------------------------------
(* Claims about the history, under Spec *)

\* the events whose merge write was applied and whose history entry was refused
HistoryFailed == {i \in 1..Len(reqs) : reqs[i].set = "applied" /\ reqs[i].add = "failed"}

\* C13: when history.add fails after the merge write was applied, the event is
\* answered 200 once, the record of its key holds its URL for as long as no later
\* event of that key is processed, and a lookup of that key whose read does not
\* fail is answered 200 with that URL.
C13_HistoryFailureKeepsRecord ==
    /\ \A i \in 1..Len(reqs) :
        reqs[i].add = "failed" =>
            /\ reqs[i].set = "applied"
            /\ reqs[i].status = 200
            /\ reqs[i].responses = 1
    /\ \A i \in HistoryFailed :
        i = LastProcessedFor(reqs[i].c.base) =>
            /\ \E d \in orders :
                d.id = reqs[i].c.base /\ d.fields["trackingUrl"] = reqs[i].c.trackingUrl
            /\ (last.kind = "lookup" /\ ~last.readFailed /\ last.base = reqs[i].c.base) =>
                /\ last.status = 200
                /\ last.trackingUrl = reqs[i].c.trackingUrl

\* a lookup that finds the URL of an event whose history entry was refused
C13_Witness ==
    /\ last.kind = "lookup"
    /\ last.status = 200
    /\ \E i \in HistoryFailed :
        /\ i = LastProcessedFor(reqs[i].c.base)
        /\ last.base = reqs[i].c.base
        /\ last.trackingUrl = reqs[i].c.trackingUrl
        /\ reqs[i].status = 200
        /\ \A n \in 1..Len(history) : history[n].doc # reqs[i].c.base

\* the history entry of request i is added in this step
EntryAdded(i) == reqs[i].add = "pending" /\ reqs'[i].add = "applied"

\* the fields docRef.set writes
WrittenFields == {"orderNumberBase", "orderNumber", "trackingUrl", "updatedAt"}

\* C14: the history only grows at its end: a step keeps every entry as it was and
\* adds at most one, which is the entry {trackingUrl, at, source} of the request
\* whose history.add resolved, under its order key; every resolved add adds one.
\* The step that applies a merge write leaves the history, every other document
\* and every field of its document that is not in the write as they were, and
\* writes trackingUrl and updatedAt whatever they held.
C14_HistoryAppendOnlyMergeKeepsRest ==
    [][ /\ Len(history') \in {Len(history), Len(history) + 1}
        /\ SubSeq(history', 1, Len(history)) = history
        /\ Len(history') = Len(history) + 1 =>
            \E i \in 1..Len(reqs) :
                /\ EntryAdded(i)
                /\ reqs[i].set = "applied"
                /\ DOMAIN history'[Len(history')] = {"doc", "trackingUrl", "at", "source"}
                /\ history'[Len(history')].doc = reqs[i].c.base
                /\ history'[Len(history')].trackingUrl = reqs[i].c.trackingUrl
                /\ history'[Len(history')].source = reqs[i].c.source
                /\ history'[Len(history')].at.t = "date"
        /\ \A i \in 1..Len(reqs) :
            /\ EntryAdded(i) => Len(history') = Len(history) + 1
            /\ MergeApplied(i) =>
                LET k   == reqs[i].c.base
                    old == FieldsOf(orders, k)
                    new == FieldsOf(orders', k)
                IN  /\ history' = history
                    /\ {d \in orders' : d.id # k} = {d \in orders : d.id # k}
                    /\ \E d \in orders' : d.id = k
                    /\ DOMAIN new = DOMAIN old \cup WrittenFields
                    /\ \A f \in DOMAIN old \ WrittenFields : new[f] = old[f]
                    /\ new["trackingUrl"] = reqs[i].c.trackingUrl
                    /\ new["updatedAt"] = reqs[i].c.updatedAt ]_vars

\* a second entry behind the first, and the document of order 9 with the note
\* another client wrote next to the URL of the event
C14_Witness ==
    /\ Len(history) = 2
    /\ history[1].doc = <<"9">>
    /\ history[2].doc = <<"9">>
    /\ history[1].trackingUrl # history[2].trackingUrl
    /\ history[1].source # history[2].source
    /\ \E d \in orders :
        /\ d.id = <<"9">>
        /\ d.fields["note"] = Str(<<"n">>)
        /\ d.fields["trackingUrl"] = history[2].trackingUrl
        /\ d.fields["updatedAt"] = Date(2)

----------------------------------------------------------------------------
(* Claims about the life of a record, under Spec *)

\* the order keys that have a record
RecordKeys == {d.id : d \in orders}

\* C15: no step removes a record: a key that has one has one in every later state,
\* and a lookup whose read did not fail answers 404 only for a key that has no
\* record, hence never for a key that ever had one.
C15_RecordsNeverDeleted ==
    /\ [][RecordKeys \subseteq RecordKeys']_vars
    /\ []((last.kind = "lookup" /\ ~last.readFailed /\ last.status = 404)
            => last.base \notin RecordKeys)

\* the record of order 7 outlives a later event whose write the store refused, and
\* is found
C15_Witness ==
    /\ Len(reqs) = 2
    /\ reqs[1].set = "applied"
    /\ reqs[1].c.base = <<"7">>
    /\ reqs[2].set = "failed"
    /\ last.kind = "lookup"
    /\ last.base = <<"7">>
    /\ last.status = 200
    /\ last.trackingUrl = reqs[1].c.trackingUrl

----------------------------------------------------------------------------
(* Claims about the two routes, under Spec *)

OtherRoute(r) == CHOOSE s \in Routes : s # r

\* the same request sent to the other route
OnOtherRoute(req) == [req EXCEPT !.route = OtherRoute(req.route)]

\* C16: the two routes differ in the source alone. A request sent to the other
\* route is verified alike and handled alike up to its first await, but for the
\* source it carries; the merge write leaves the store as the other route's write
\* of the same payload would have left the same prior store (the same key, display
\* number and trackingUrl, and all the rest); the history entry added is the other
\* route's but for its source.
C16_RoutesDifferInSourceOnly ==
    [][ /\ (last'.kind = "webhook" /\ last' # last) =>
            LET req  == last'.req
                mine == reqs'[last'.id]
                twin == handle(OnOtherRoute(req), last'.id)
            IN  /\ verifyShopifyWebhook(OnOtherRoute(req)) = last'.verdict
                /\ IF mine.pc = "awaitSet"
                   THEN /\ mine.c.source = req.route
                        /\ twin.c.source = OtherRoute(req.route)
                        /\ twin = [mine EXCEPT !.c.source = OtherRoute(req.route)]
                   ELSE twin = mine
        /\ \A i \in 1..Len(reqs) :
            LET c    == reqs[i].c
                twin == [c EXCEPT !.source = OtherRoute(c.source)]
            IN  /\ MergeApplied(i) =>
                    /\ orders' = upsert(orders, twin)
                    /\ FieldsOf(orders', c.base)["orderNumberBase"] = Str(c.base)
                    /\ FieldsOf(orders', c.base)["orderNumber"] = Str(<<"#">> \o c.base)
                    /\ FieldsOf(orders', c.base)["trackingUrl"] = c.trackingUrl
                /\ EntryAdded(i) =>
                    /\ history'[Len(history')].source = c.source
                    /\ history' = Append(history,
                                     [historyEntry(twin) EXCEPT !.source = c.source]) ]_vars

\* an event on the update route creates the record of an order that had none, and
\* its history entry says FULFILLMENTS_UPDATE
C16_Witness ==
    /\ Len(reqs) = 1
    /\ reqs[1].add = "applied"
    /\ last.kind = "webhook"
    /\ last.req.route = "FULFILLMENTS_UPDATE"
    /\ Len(history) = 1
    /\ history[1].source = "FULFILLMENTS_UPDATE"
    /\ history[1].doc = <<"7">>
    /\ \E d \in orders : d.id = <<"7">> /\ d.fields["trackingUrl"] = history[1].trackingUrl

----------------------------------------------------------------------------
(* Claims about the shape of a record, under Spec *)

\* the records handleFulfillment wrote: it is the only writer of orderNumberBase
WrittenByHandler == {d \in orders : "orderNumberBase" \in DOMAIN d.fields}

\* C17: every record handleFulfillment wrote has a non-empty key, orderNumberBase
\* equal to the key, orderNumber equal to '#' followed by the key and a non-empty
\* trackingUrl; a merge write is only ever issued for a non-empty key and a
\* non-empty URL, and every applied one left such a record.
C17_RecordShape ==
    /\ \A d \in WrittenByHandler :
        /\ d.id # <<>>
        /\ d.fields["orderNumberBase"] = Str(d.id)
        /\ d.fields["orderNumber"] = Str(<<"#">> \o d.id)
        /\ Truthy(d.fields["trackingUrl"])
    /\ \A d \in orders : d.id # <<>>
    /\ \A i \in 1..Len(reqs) :
        /\ reqs[i].set # "none" /\ reqs[i].pc # "done" =>
            reqs[i].c.base # <<>> /\ Truthy(reqs[i].c.trackingUrl)
        /\ reqs[i].set = "applied" =>
            \E d \in WrittenByHandler : d.id = reqs[i].c.base

\* the label '#7' stored under key '7' with the display number '#7'
C17_Witness ==
    /\ \E i \in 1..Len(reqs) :
        reqs[i].set = "applied" /\ reqs[i].c.rawName = Str(<<"#", "7">>)
    /\ \E d \in WrittenByHandler :
        /\ d.id = <<"7">>
        /\ d.fields["orderNumberBase"] = Str(<<"7">>)
        /\ d.fields["orderNumber"] = Str(<<"#", "7">>)
        /\ d.fields["trackingUrl"] \in {UrlA, UrlB}

----------------------------------------------------------------------------
(* Claims about records and their history, under SpecConc *)

\* the history of order key k, in the order its entries were added
HistoryOf(k) == SelectSeq(history, LAMBDA e : e.doc = k)

\* no webhook request is in flight and no store operation has failed
QuietAndUnfailed ==
    /\ AllAnswered
    /\ \A i \in 1..Len(reqs) : reqs[i].set # "failed" /\ reqs[i].add # "failed"

\* the keys handleFulfillment wrote a record or a history entry for
HandledKeys ==
    {d.id : d \in WrittenByHandler} \cup {history[n].doc : n \in 1..Len(history)}

HasRecord(k) == \E d \in WrittenByHandler : d.id = k

\* every request arrived when the ones before it had been answered
OneAfterAnother == \A i \in 1..Len(reqs) : reqs[i].alone

\* C18 as stated: when nothing is in flight and nothing has failed, a key has a
\* record exactly when its history is not empty, and the entry added last carries
\* the record's trackingUrl, whatever the interleaving of the deliveries.
C18_LastEntryMatchesRecord ==
    QuietAndUnfailed =>
        \A k \in HandledKeys :
            /\ HasRecord(k) <=> HistoryOf(k) # <<>>
            /\ HistoryOf(k) # <<>> =>
                HistoryOf(k)[Len(HistoryOf(k))].trackingUrl
                    = FieldsOf(orders, k)["trackingUrl"]

\* C18 amended: when nothing is in flight and nothing has failed, a key has a
\* record exactly when its history is not empty and the record's trackingUrl is
\* that of one of the key's history entries, whatever the interleaving; it is that
\* of the entry added last when the deliveries were handled one after another.
C18_SomeEntryMatchesRecord ==
    QuietAndUnfailed =>
        \A k \in HandledKeys :
            /\ HasRecord(k) <=> HistoryOf(k) # <<>>
            /\ HistoryOf(k) # <<>> =>
                /\ \E n \in 1..Len(HistoryOf(k)) :
                    HistoryOf(k)[n].trackingUrl = FieldsOf(orders, k)["trackingUrl"]
                /\ OneAfterAnother =>
                    HistoryOf(k)[Len(HistoryOf(k))].trackingUrl
                        = FieldsOf(orders, k)["trackingUrl"]

\* two overlapping deliveries, both stored and both in the history: the record holds
\* the URL of the first entry, not of the last
C18_Witness ==
    /\ QuietAndUnfailed
    /\ Len(reqs) = 2
    /\ ~reqs[2].alone
    /\ Len(HistoryOf(<<"7">>)) = 2
    /\ HasRecord(<<"7">>)
    /\ HistoryOf(<<"7">>)[1].trackingUrl = FieldsOf(orders, <<"7">>)["trackingUrl"]
    /\ HistoryOf(<<"7">>)[2].trackingUrl # FieldsOf(orders, <<"7">>)["trackingUrl"]

----------------------------------------------------------------------------
(* Claims about responses, under SpecLive *)

\* request i has been sent its one response
AnsweredOnce(i) ==
    i <= Len(reqs) /\ reqs[i].pc = "done" /\ reqs[i].responses = 1

\* C19: provided every awaited store operation completes or fails, every webhook
\* request received is eventually answered and every lookup awaiting the store is
\* eventually answered; at no time has a webhook request been sent two responses,
\* a request whose handling is over has been sent one, and the step that ends a
\* lookup sends the one answer to its query.
C19_EveryRequestAnsweredOnce ==
    /\ \A i \in 1..MaxRequests : (i <= Len(reqs)) ~> AnsweredOnce(i)
    /\ (lk.pc = "awaitGet") ~> (lk.pc = "idle")
    /\ [](\A i \in 1..Len(reqs) :
            /\ reqs[i].responses \in {0, 1}
            /\ reqs[i].pc = "done" <=> reqs[i].responses = 1)
    /\ [][ /\ (lk.pc = "awaitGet" /\ lk'.pc = "idle") =>
                /\ last'.kind = "lookup"
                /\ last'.query = lk.query
                /\ last'.status \in {200, 404, 500}
           /\ (last'.kind = "lookup" /\ last' # last) =>
                \/ lk.pc = "awaitGet" /\ lk'.pc = "idle"
                \/ lk.pc = "idle" /\ lk'.pc = "idle" /\ last'.status = 400 ]_vars

\* answered after both store calls, answered after a rejected write, and a lookup
\* answered meanwhile
C19_Witness ==
    /\ Len(reqs) = 2
    /\ AnsweredOnce(1)
    /\ AnsweredOnce(2)
    /\ reqs[1].add = "applied"
    /\ reqs[2].set = "failed"
    /\ last.kind = "lookup"
    /\ last.status = 200

====
